---- MODULE Spec2Model ----
(***************************************************************************)
(* qiskit/circuit/duration.py: duration_in_dt and convert_durations_to_dt. *)
(*                                                                         *)
(* Numbers.  A Python number is a record [type, m, e] standing for the     *)
(* exact decimal m * 10^e; type is "int" (e = 0), "float" or "NoneType".   *)
(* Arithmetic is carried out exactly on these decimals.  The calls that    *)
(* are explored are those on which binary64 takes the same decisions as    *)
(* exact arithmetic (Decisive): round-off can turn neither the rounding of *)
(* the quotient nor the comparison with 1e-15.                             *)
(*                                                                         *)
(* Strings that the code inspects (the unit) are sequences of characters.  *)
(*                                                                         *)
(* Objects.  heap is the sequence of live QuantumCircuit objects; an       *)
(* object's identity is its index.  heap[1] is the circuit the caller      *)
(* passes in; a copy made by the call is appended.                         *)
(***************************************************************************)
EXTENDS Integers, Sequences, FiniteSets

VARIABLES heap, last, before, returned, raised, warnings, converted

vars == <<heap, last, before, returned, raised, warnings, converted>>

(***************************************************************************)
(* Bounds of the explored input space.                                     *)
(***************************************************************************)
MaxMant == 5        \* durations have mantissa -1 .. MaxMant
MaxDtMant == 4      \* dt_in_sec has mantissa -1 .. MaxDtMant
MaxDigits == 8      \* decimal digits of the integers the arithmetic forms

(***************************************************************************)
(* Python values.                                                          *)
(***************************************************************************)
None == [type |-> "NoneType", m |-> 0, e |-> 0]
PyInt(n) == [type |-> "int", m |-> n, e |-> 0]
PyFloat(m, e) == [type |-> "float", m |-> m, e |-> e]

RECURSIVE Pow10(_)
Pow10(k) == IF k <= 0 THEN 1 ELSE 10 * Pow10(k - 1)

RECURSIVE Pow5(_)
Pow5(k) == IF k <= 0 THEN 1 ELSE 5 * Pow5(k - 1)

Abs(n) == IF n < 0 THEN -n ELSE n
Min(a, b) == IF a <= b THEN a ELSE b

(***************************************************************************)
(* Exact decimal arithmetic standing for Python's float operators.         *)
(***************************************************************************)
\* n \div 10^k (floor), for any k >= 0 and any machine-range n.
FloorDivPow10(n, k) ==
    IF k > 9 THEN (IF n >= 0 THEN 0 ELSE -1) ELSE n \div Pow10(k)

\* a > b
gt(a, b) ==
    LET k == a.e - b.e
    IN  IF k >= 0
        THEN a.m > FloorDivPow10(b.m, k)
        ELSE b.m < -FloorDivPow10(-a.m, -k)

\* a - b
sub(a, b) ==
    LET emin == Min(a.e, b.e)
    IN  PyFloat(a.m * Pow10(a.e - emin) - b.m * Pow10(b.e - emin), emin)

\* n * b for an int n
mul(n, b) == PyFloat(n * b.m, b.e)

\* abs(a)
abs(a) == [a EXCEPT !.m = Abs(a.m)]

\* a / b as an exact fraction num/den with den > 0; b is not zero.
truediv(a, b) ==
    LET k == a.e - b.e
        n == IF k >= 0 THEN a.m * Pow10(k) ELSE a.m
        d == IF k >= 0 THEN b.m ELSE b.m * Pow10(-k)
    IN  IF d < 0 THEN [num |-> -n, den |-> -d] ELSE [num |-> n, den |-> d]

\* A plausible wrong rounding: halves go up (floor(x + 1/2)).
round_half_up(q) ==
    LET fl == q.num \div q.den
        rem == q.num % q.den
    IN  IF 2 * rem >= q.den THEN fl + 1 ELSE fl

\* Python 3 round(x): nearest integer, halves to the even neighbour.
round(q) ==
    LET fl == q.num \div q.den
        rem == q.num % q.den
    IN  IF 2 * rem < q.den THEN fl
        ELSE IF 2 * rem > q.den THEN fl + 1
        ELSE IF fl % 2 = 0 THEN fl ELSE fl + 1

(***************************************************************************)
(* Outcomes of a call: what was raised, what was returned, what was warned. *)
(***************************************************************************)
NoError == [type |-> "none", arg |-> <<>>]
ZeroDivisionError == [type |-> "ZeroDivisionError", arg |-> <<>>]
CircuitError(unit) == [type |-> "CircuitError", arg |-> unit]
PrefixFailure(unit) == [type |-> "PrefixScalingFailure", arg |-> unit]

UserWarning(res) == [category |-> "UserWarning", res |-> res]

\* The 1e-15 literal of the rounding-error test.
RoundingTolerance == PyFloat(1, -15)

\* A plausible wrong test: warns when the error reaches the tolerance.
duration_in_dt_warn_ge(duration_in_sec, dt_in_sec) ==
    IF dt_in_sec.m = 0
    THEN [raised |-> ZeroDivisionError, value |-> None, warnings |-> <<>>]
    ELSE LET res == round(truediv(duration_in_sec, dt_in_sec))
             rounding_error == abs(sub(duration_in_sec, mul(res, dt_in_sec)))
         IN  [raised |-> NoError,
              value |-> PyInt(res),
              warnings |-> IF ~gt(RoundingTolerance, rounding_error)
                           THEN <<UserWarning(res)>> ELSE <<>>]

duration_in_dt(duration_in_sec, dt_in_sec) ==
    IF dt_in_sec.m = 0
    THEN [raised |-> ZeroDivisionError, value |-> None, warnings |-> <<>>]
    ELSE LET res == round(truediv(duration_in_sec, dt_in_sec))
             rounding_error == abs(sub(duration_in_sec, mul(res, dt_in_sec)))
         IN  [raised |-> NoError,
              value |-> PyInt(res),
              warnings |-> IF gt(rounding_error, RoundingTolerance)
                           THEN <<UserWarning(res)>> ELSE <<>>]

(***************************************************************************)
(* Units and circuits.                                                     *)
(***************************************************************************)
Str_dt == <<"d", "t">>
Str_s == <<"s">>
Str_ms == <<"m", "s">>
Str_us == <<"u", "s">>
Str_ns == <<"n", "s">>
Str_xs == <<"x", "s">>
Str_Hz == <<"H", "z">>
Str_empty == <<>>

\* str.endswith for a one-character suffix
endswith(str, suffix) == Len(str) > 0 /\ <<str[Len(str)]>> = suffix

\* qiskit.utils.units.apply_prefix: scales by the power of ten the unit's
\* metric prefix stands for, and fails on a prefix it does not know.
PrefixExponent(p) ==
    CASE p = "p" -> -12
      [] p = "n" -> -9
      [] p = "u" -> -6
      [] p = "m" -> -3
      [] p = "k" -> 3
      [] OTHER -> 0

RecognizedPrefixes == {"p", "n", "u", "m", "k"}

apply_prefix(value, unit) ==
    IF Len(unit) > 0 /\ Head(unit) \in RecognizedPrefixes
    THEN [raised |-> NoError,
          value |-> PyFloat(value.m, value.e + PrefixExponent(Head(unit)))]
    ELSE [raised |-> PrefixFailure(unit), value |-> None]

\* QuantumCircuit.copy(): a new object whose fields equal the original's.
copy(qc) == [duration |-> qc.duration, unit |-> qc.unit, data |-> qc.data]

\* Return values.
NoReturn == [kind |-> "none", ref |-> 0, value |-> None]
ReturnNone == [kind |-> "None", ref |-> 0, value |-> None]
ReturnRef(i) == [kind |-> "object", ref |-> i, value |-> None]
ReturnValue(v) == [kind |-> "value", ref |-> 0, value |-> v]

(***************************************************************************)
(* convert_durations_to_dt, statement by statement.  h is the heap, qc and *)
(* circ are object identities.                                             *)
(***************************************************************************)
\* A plausible bug: the copy is skipped, circ aliases qc.
select_target_alias(h, qc, inplace) == [heap |-> h, circ |-> qc]

\* circ = qc if inplace else qc.copy()
select_target(h, qc, inplace) ==
    IF inplace
    THEN [heap |-> h, circ |-> qc]
    ELSE [heap |-> Append(h, copy(h[qc])), circ |-> Len(h) + 1]

\* A plausible bug: the test for an already converted circuit is missing.
needs_conversion_ignoring_dt(c) == c.duration # None

\* circ.duration is not None and circ.unit != "dt"
needs_conversion(c) == c.duration # None /\ c.unit # Str_dt

\* A plausible bug: the unit is not validated.
check_unit_skipped(unit) == NoError

\* if not circ.unit.endswith("s"): raise CircuitError(...)
check_unit(unit) ==
    IF ~endswith(unit, Str_s) THEN CircuitError(unit) ELSE NoError

\* A plausible bug: the prefix is not applied.
duration_in_seconds_unscaled(c) == [raised |-> NoError, value |-> c.duration]

\* A plausible bug: the collaborator's failure is caught and re-raised as
\* the invalid-unit error.
duration_in_seconds_wrapping(c) ==
    IF c.unit # Str_s
    THEN LET r == apply_prefix(c.duration, c.unit)
         IN  IF r.raised # NoError
             THEN [raised |-> CircuitError(c.unit), value |-> None]
             ELSE r
    ELSE [raised |-> NoError, value |-> c.duration]

\* duration = circ.duration; if circ.unit != "s": duration = apply_prefix(...)
duration_in_seconds(c) ==
    IF c.unit # Str_s
    THEN apply_prefix(c.duration, c.unit)
    ELSE [raised |-> NoError, value |-> c.duration]

\* A plausible bug: every instruction is rewritten along with the circuit.
store_all(h, circ, value) ==
    [h EXCEPT ![circ] =
        [duration |-> value,
         unit |-> Str_dt,
         data |-> [i \in 1..Len(h[circ].data) |->
                      [h[circ].data[i] EXCEPT !.unit = Str_dt]]]]

\* A plausible bug: the unit is left as it was.
store_duration_only(h, circ, value) == [h EXCEPT ![circ].duration = value]

\* circ.duration = <value>; circ.unit = "dt"
store(h, circ, value) ==
    [h EXCEPT ![circ].duration = value, ![circ].unit = Str_dt]

\* What the caller is left with when the call raises: its own objects; a
\* copy made by the call is unreachable.
Raise(h, n, error) ==
    [heap |-> SubSeq(h, 1, n), raised |-> error,
     returned |-> NoReturn, warnings |-> <<>>]

\* A plausible bug: the unit is rewritten before the duration is scaled.
convert_durations_to_dt_unit_first(h, qc, dt_in_sec, inplace) ==
    LET t == select_target(h, qc, inplace)
        circ == t.circ
        c == t.heap[circ]
        ret == IF ~inplace THEN ReturnRef(circ) ELSE ReturnNone
    IN  IF needs_conversion(c)
        THEN IF check_unit(c.unit) # NoError
             THEN Raise(t.heap, Len(h), check_unit(c.unit))
             ELSE LET early == [t.heap EXCEPT ![circ].unit = Str_dt]
                      sec == duration_in_seconds(c)
                  IN  IF sec.raised # NoError
                      THEN Raise(early, Len(h), sec.raised)
                      ELSE LET r == duration_in_dt(sec.value, dt_in_sec)
                           IN  IF r.raised # NoError
                               THEN Raise(early, Len(h), r.raised)
                               ELSE [heap |-> store(early, circ, r.value),
                                     raised |-> NoError,
                                     returned |-> ret,
                                     warnings |-> r.warnings]
        ELSE [heap |-> t.heap, raised |-> NoError,
              returned |-> ret, warnings |-> <<>>]

convert_durations_to_dt(h, qc, dt_in_sec, inplace) ==
    LET t == select_target(h, qc, inplace)
        circ == t.circ
        c == t.heap[circ]
        ret == IF ~inplace THEN ReturnRef(circ) ELSE ReturnNone
    IN  IF needs_conversion(c)
        THEN IF check_unit(c.unit) # NoError
             THEN Raise(t.heap, Len(h), check_unit(c.unit))
             ELSE LET sec == duration_in_seconds(c)
                  IN  IF sec.raised # NoError
                      THEN Raise(t.heap, Len(h), sec.raised)
                      ELSE LET r == duration_in_dt(sec.value, dt_in_sec)
                           IN  IF r.raised # NoError
                               THEN Raise(t.heap, Len(h), r.raised)
                               ELSE [heap |-> store(t.heap, circ, r.value),
                                     raised |-> NoError,
                                     returned |-> ret,
                                     warnings |-> r.warnings]
        ELSE [heap |-> t.heap, raised |-> NoError,
              returned |-> ret, warnings |-> <<>>]

(***************************************************************************)
(* The explored inputs.                                                    *)
(***************************************************************************)
Units == {Str_dt, Str_s, Str_ms, Str_us, Str_ns, Str_xs, Str_Hz, Str_empty}

\* Stored circuit durations: unset, ints, and floats with one decimal.
CircuitDurations ==
    {None}
        \cup {PyInt(m) : m \in (-1)..MaxMant}
        \cup {PyFloat(m, -1) : m \in 1..MaxMant}

\* Instruction lists: (name, duration, unit) per instruction.
Instruction(name, duration, unit) ==
    [name |-> name, duration |-> duration, unit |-> unit]

InstructionLists ==
    {<<>>,
     <<Instruction("delay", PyInt(100), Str_ns),
       Instruction("measure", None, Str_dt)>>}

Circuits ==
    [duration : CircuitDurations, unit : Units, data : InstructionLists]

\* dt_in_sec for direct calls of duration_in_dt: zero, negative and
\* positive step sizes; 0.5 and 0.25 among them.
DtExponents == {-15, -9, -6, 0}
DtValues ==
    {PyFloat(0, 0), PyFloat(5, -1), PyFloat(25, -2)}
        \cup {PyFloat(m, e) : m \in ((-1)..MaxDtMant) \ {0}, e \in DtExponents}

\* dt_in_sec for calls of convert_durations_to_dt.
ConvertDtValues ==
    {PyFloat(0, 0)}
        \cup {PyFloat(m, e) : m \in {-1, 1, 2}, e \in {-9, -6}}

\* duration_in_sec for direct calls of duration_in_dt; the halves
\* 0.5, 1.0, 1.5, ... among them.
SecExponents == {-15, -9, -6, 0}
SecValues ==
    {PyFloat(m, e) : m \in (-1)..MaxMant, e \in SecExponents}
        \cup {PyFloat(5 * m, -1) : m \in 1..MaxMant}

\* The pairs whose quotient and remainder have at most MaxDigits decimal
\* digits.
InRange(d, s) ==
    LET gap == Abs(d.e - s.e)
    IN  /\ gap < MaxDigits
        /\ Abs(d.m) < Pow10(MaxDigits - gap)
        /\ Abs(s.m) < Pow10(MaxDigits - gap)

\* v is a binary64 value: an integer, or a multiple of a power of 1/2.
Exact(v) ==
    \/ v.m = 0
    \/ v.e >= 0
    \/ (v.e >= -9 /\ v.m % Pow5(-v.e) = 0)

\* |v| < 8, where one unit in the last place of binary64 is below 1e-15.
BelowEight(v) ==
    IF v.e > 0 THEN v.m = 0
    ELSE IF v.e < -8 THEN TRUE
    ELSE Abs(v.m) < 8 * Pow10(-v.e)

\* binary64 decides as exact arithmetic does: a quotient exactly halfway
\* between two integers comes from binary64 operands; a rounding error of
\* exactly 1e-15 is the operand 1e-15 itself (res = 0); and the round-off
\* of res * dt_in_sec stays below 1e-15.
Decisive(d, s) ==
    LET q == truediv(d, s)
        res == round(q)
        rounding_error == abs(sub(d, mul(res, s)))
    IN  /\ 2 * (q.num % q.den) = q.den => (Exact(d) /\ Exact(s))
        /\ (~gt(rounding_error, RoundingTolerance)
              /\ ~gt(RoundingTolerance, rounding_error)) => res = 0
        /\ (Exact(d) /\ Exact(s)) \/ BelowEight(d)

\* The explored calls of duration_in_dt.
Explored(d, s) ==
    IF s.m = 0 THEN TRUE
    ELSE IF ~InRange(d, s) THEN FALSE
    ELSE Decisive(d, s)

\* The same for a circuit: the duration in seconds the call would divide.
CircuitExplored(c, dt_in_sec) ==
    IF ~needs_conversion(c) THEN TRUE
    ELSE IF check_unit(c.unit) # NoError THEN TRUE
    ELSE IF duration_in_seconds(c).raised # NoError THEN TRUE
    ELSE Explored(duration_in_seconds(c).value, dt_in_sec)

NoCall == [op |-> "none", d |-> None, dt |-> None, inplace |-> FALSE]

(***************************************************************************)
(* The state machine of a caller.                                          *)
(*   heap      the live circuits: heap[1] is the caller's circuit, heap[2] *)
(*             the copy the last call returned, if it returned one         *)
(*   last      the call just made                                          *)
(*   before    the caller's circuit when the call was made                 *)
(*   returned, raised, warnings   the call's outcome                       *)
(*   converted an in-place call on the caller's circuit has succeeded      *)
(***************************************************************************)
Init ==
    /\ heap \in {<<c>> : c \in Circuits}
    /\ last = NoCall
    /\ before = heap[1]
    /\ returned = NoReturn
    /\ raised = NoError
    /\ warnings = <<>>
    /\ converted = FALSE

\* convert_durations_to_dt(heap[1], dt_in_sec, inplace); the copy an earlier
\* call returned has been dropped by the caller.
CallConvert(dt_in_sec, inplace) ==
    /\ CircuitExplored(heap[1], dt_in_sec)
    /\ LET out == convert_durations_to_dt(<<heap[1]>>, 1, dt_in_sec, inplace)
       IN  /\ heap' = out.heap
           /\ raised' = out.raised
           /\ returned' = out.returned
           /\ warnings' = out.warnings
           /\ converted' = (converted \/ (inplace /\ out.raised = NoError))
    /\ last' = [op |-> "convert_durations_to_dt", d |-> None,
                dt |-> dt_in_sec, inplace |-> inplace]
    /\ before' = heap[1]

Next ==
    \E dt_in_sec \in ConvertDtValues, inplace \in BOOLEAN :
        CallConvert(dt_in_sec, inplace)

Spec == Init /\ [][Next]_vars

(***************************************************************************)
(* The state machine of a caller of duration_in_dt alone: the circuit is   *)
(* not involved.                                                           *)
(***************************************************************************)
InitNum ==
    /\ heap = <<[duration |-> None, unit |-> Str_dt, data |-> <<>>]>>
    /\ last = NoCall
    /\ before = heap[1]
    /\ returned = NoReturn
    /\ raised = NoError
    /\ warnings = <<>>
    /\ converted = FALSE

\* duration_in_dt(d, s)
CallDurationInDt(d, s) ==
    /\ Explored(d, s)
    /\ LET out == duration_in_dt(d, s)
       IN  /\ raised' = out.raised
           /\ returned' = IF out.raised = NoError
                          THEN ReturnValue(out.value) ELSE NoReturn
           /\ warnings' = out.warnings
    /\ last' = [op |-> "duration_in_dt", d |-> d, dt |-> s, inplace |-> FALSE]
    /\ UNCHANGED <<heap, before, converted>>

NextNum == \E d \in SecValues, s \in DtValues : CallDurationInDt(d, s)

SpecNum == InitNum /\ [][NextNum]_vars

(***************************************************************************)
(* Vocabulary of the properties.                                           *)
(***************************************************************************)
IsConvert == last.op = "convert_durations_to_dt"
IsDurationInDt == last.op = "duration_in_dt"

\* The object the last call worked on: the caller's circuit, or the copy.
Target == IF last.inplace THEN 1 ELSE Len(heap)

SameTiming(a, b) == a.duration = b.duration /\ a.unit = b.unit

\* The stored duration in plain seconds, for the SI units of the model.
SecondsOf(c) ==
    CASE c.unit = Str_s -> c.duration
      [] c.unit = Str_ms -> PyFloat(c.duration.m, c.duration.e - 3)
      [] c.unit = Str_us -> PyFloat(c.duration.m, c.duration.e - 6)
      [] c.unit = Str_ns -> PyFloat(c.duration.m, c.duration.e - 9)

SIUnits == {Str_s, Str_ms, Str_us, Str_ns}

\* d / s as a fraction of integers QuotNum / QuotDen.
QuotNum(d, s) == IF d.e >= s.e THEN d.m * Pow10(d.e - s.e) ELSE d.m
QuotDen(d, s) == IF d.e >= s.e THEN s.m ELSE s.m * Pow10(s.e - d.e)

\* |d - r * s| in units of 10^Min(d.e, s.e).
ErrorUnits(d, s, r) == Abs(QuotNum(d, s) - r * QuotDen(d, s))

\* r is an integer nearest to d / s, the even one of two.
IsNearest(d, s, r) ==
    /\ 2 * ErrorUnits(d, s, r) <= Abs(QuotDen(d, s))
    /\ 2 * ErrorUnits(d, s, r) = Abs(QuotDen(d, s)) => r % 2 = 0

\* |d - r * s| > 1e-15, for exponents not below -15.
ErrorExceedsTolerance(d, s, r) ==
    IF Min(d.e, s.e) = -15
    THEN ErrorUnits(d, s, r) > 1
    ELSE ErrorUnits(d, s, r) >= 1

(***************************************************************************)
(* C1 as stated: a call with inplace=False and dt_in_sec > 0 that does not *)
(* raise leaves the original's duration and unit as they were and returns  *)
(* a distinct object whose unit is "dt" and whose duration is an integer,  *)
(* for every circuit, unset duration included.                             *)
(***************************************************************************)
C1_AsStated ==
    (IsConvert /\ ~last.inplace /\ last.dt.m > 0 /\ raised = NoError)
        => /\ SameTiming(heap[1], before)
           /\ returned.kind = "object"
           /\ returned.ref # 1
           /\ heap[returned.ref].unit = Str_dt
           /\ heap[returned.ref].duration.type = "int"

(***************************************************************************)
(* C1 amended: such a call leaves the original's duration and unit as they *)
(* were and returns a distinct object; the returned object has unit "dt"   *)
(* and an integer duration when the original's duration is set and its     *)
(* unit is not "dt", and otherwise carries the original's duration and     *)
(* unit unchanged.                                                         *)
(***************************************************************************)
C1_CopyConverted ==
    (IsConvert /\ ~last.inplace /\ last.dt.m > 0 /\ raised = NoError)
        => /\ SameTiming(heap[1], before)
           /\ returned.kind = "object"
           /\ returned.ref # 1
           /\ returned.ref \in 1..Len(heap)
           /\ IF before.duration # None /\ before.unit # Str_dt
              THEN /\ heap[returned.ref].unit = Str_dt
                   /\ heap[returned.ref].duration.type = "int"
              ELSE SameTiming(heap[returned.ref], before)

C1_Witness ==
    /\ IsConvert /\ ~last.inplace /\ last.dt.m > 0 /\ raised = NoError
    /\ before.duration = PyInt(5) /\ before.unit = Str_ms
    /\ returned = ReturnRef(2)
    /\ heap[2].unit = Str_dt

(***************************************************************************)
(* C2: for a circuit whose duration is set and whose unit is "s" or "s"    *)
(* with a recognized prefix, an in-place call with dt_in_sec > 0 returns   *)
(* None and leaves unit "dt" and duration duration_in_dt(sec, dt_in_sec),  *)
(* sec being the stored duration for "s" and the prefix-scaled value       *)
(* otherwise; 5 "ms" at dt_in_sec = 1e-6 becomes 5000.                     *)
(***************************************************************************)
C2_InPlaceResult ==
    (IsConvert /\ last.inplace /\ last.dt.m > 0
        /\ before.duration # None /\ before.unit \in SIUnits)
        => /\ raised = NoError
           /\ returned = ReturnNone
           /\ heap[1].unit = Str_dt
           /\ heap[1].duration = duration_in_dt(SecondsOf(before), last.dt).value
           /\ (before.duration = PyInt(5) /\ before.unit = Str_ms
                 /\ last.dt = PyFloat(1, -6))
              => heap[1].duration = PyInt(5000)

C2_Witness ==
    /\ IsConvert /\ last.inplace /\ last.dt = PyFloat(1, -6)
    /\ before.duration = PyInt(5) /\ before.unit = Str_ms
    /\ heap[1].duration = PyInt(5000) /\ heap[1].unit = Str_dt

(***************************************************************************)
(* C3: when the duration is unset or the unit is already "dt", a call is a *)
(* no-op for every dt_in_sec: the target's duration and unit are           *)
(* unchanged, nothing is raised, nothing is warned, and an in-place call   *)
(* returns None.                                                           *)
(***************************************************************************)
C3_NoOp ==
    (IsConvert /\ (before.duration = None \/ before.unit = Str_dt))
        => /\ raised = NoError
           /\ warnings = <<>>
           /\ \A i \in 1..Len(heap) : SameTiming(heap[i], before)
           /\ Len(heap) = Target
           /\ last.inplace => returned = ReturnNone

C3_Witness ==
    /\ IsConvert /\ last.inplace /\ last.dt.m = 0
    /\ before.duration = PyFloat(5, -1) /\ before.unit = Str_dt
    /\ returned = ReturnNone

(***************************************************************************)
(* C4 as stated: whenever the unit is set, does not end in "s" and is not  *)
(* "dt", the call raises the invalid-unit CircuitError naming the unit.    *)
(***************************************************************************)
C4_AsStated ==
    (IsConvert /\ before.unit # Str_empty /\ before.unit # Str_dt
        /\ ~endswith(before.unit, Str_s))
        => raised = CircuitError(before.unit)

(***************************************************************************)
(* C4 amended: whenever the duration is set and the unit does not end in   *)
(* "s" and is not "dt", the call raises the invalid-unit CircuitError      *)
(* naming the unit; a circuit whose unit does not end in "s" is never      *)
(* converted; with the duration unset the unit is not examined and the     *)
(* call raises nothing.                                                    *)
(***************************************************************************)
C4_InvalidUnit ==
    IsConvert
        => /\ (before.duration # None /\ before.unit # Str_dt
                 /\ ~endswith(before.unit, Str_s))
              => (raised = CircuitError(before.unit) /\ returned = NoReturn)
           /\ ~endswith(before.unit, Str_s)
              => \A i \in 1..Len(heap) : SameTiming(heap[i], before)
           /\ before.duration = None => raised = NoError

C4_Witness ==
    /\ IsConvert
    /\ before.duration = PyInt(5) /\ before.unit = Str_Hz
    /\ raised = CircuitError(Str_Hz)

(***************************************************************************)
(* C5: for s > 0, duration_in_dt(d, s) returns an integer r nearest to     *)
(* d / s, |d/s - r| <= 1/2, an exact half going to the even neighbour;     *)
(* duration_in_dt(1e-6, 1e-9) is 1000.                                     *)
(***************************************************************************)
C5_Nearest ==
    (IsDurationInDt /\ last.dt.m > 0)
        => /\ returned.kind = "value"
           /\ returned.value.type = "int"
           /\ IsNearest(last.d, last.dt, returned.value.m)
           /\ (last.d = PyFloat(1, -6) /\ last.dt = PyFloat(1, -9))
              => returned.value = PyInt(1000)

\* 5.0 / 2.0 = 2.5 goes to 2.
C5_Witness ==
    /\ IsDurationInDt
    /\ last.d = PyFloat(5, 0) /\ last.dt = PyFloat(2, 0)
    /\ returned = ReturnValue(PyInt(2))

(***************************************************************************)
(* C6: duration_in_dt(d, s) warns exactly when |d - round(d/s)*s| is       *)
(* strictly greater than 1e-15; warned or not, the call completes and      *)
(* returns round(d/s).                                                     *)
(***************************************************************************)
C6_WarningIff ==
    (IsDurationInDt /\ last.dt.m # 0)
        => /\ raised = NoError
           /\ returned = ReturnValue(PyInt(round(truediv(last.d, last.dt))))
           /\ Len(warnings) <= 1
           /\ warnings # <<>>
              <=> ErrorExceedsTolerance(last.d, last.dt, returned.value.m)

\* 5e-9 / 4e-9 goes to 1 with an error of 1e-9: warned, and 1 returned.
C6_Witness ==
    /\ IsDurationInDt
    /\ last.d = PyFloat(5, -9) /\ last.dt = PyFloat(4, -9)
    /\ warnings = <<UserWarning(1)>>
    /\ returned = ReturnValue(PyInt(1))

(***************************************************************************)
(* C7: when the duration is set and the unit ends in "s" but carries a     *)
(* prefix the collaborator rejects, the call fails with the collaborator's *)
(* failure, not with the invalid-unit error, and nothing is converted; the *)
(* unit's ending is tested before scaling is attempted, so a unit that     *)
(* does not end in "s" never reaches the collaborator.                     *)
(***************************************************************************)
C7_PrefixFailurePropagates ==
    IsConvert
        => /\ (before.duration # None /\ endswith(before.unit, Str_s)
                 /\ before.unit \notin SIUnits)
              => /\ raised = PrefixFailure(before.unit)
                 /\ returned = NoReturn
                 /\ \A i \in 1..Len(heap) : SameTiming(heap[i], before)
           /\ raised.type = "PrefixScalingFailure"
              => endswith(before.unit, Str_s)

C7_Witness ==
    /\ IsConvert
    /\ before.duration = PyInt(5) /\ before.unit = Str_xs
    /\ raised = PrefixFailure(Str_xs)

C9_FailureAtomic ==
    (IsConvert /\ last.inplace /\ raised # NoError)
        => /\ Len(heap) = 1
           /\ SameTiming(heap[1], before)

C9_Witness ==
    /\ IsConvert /\ last.inplace
    /\ raised.type = "PrefixScalingFailure"
    /\ before.duration # None

(***************************************************************************)
(* C10: once an in-place call has succeeded, every further call on the     *)
(* circuit, with any dt_in_sec, leaves its duration and unit unchanged,    *)
(* raises nothing and warns nothing.                                       *)
(***************************************************************************)
C10_Idempotent ==
    [][(converted /\ last'.op = "convert_durations_to_dt")
          => /\ SameTiming(heap'[1], heap[1])
             /\ raised' = NoError
             /\ warnings' = <<>>]_vars

\* A second call on a circuit that the first call converted to 5000 dt.
C10_Witness ==
    /\ converted /\ IsConvert /\ last.inplace
    /\ before.duration = PyInt(5000) /\ before.unit = Str_dt
    /\ SameTiming(heap[1], before)

====
